---- MODULE Spec2Model ----
(***************************************************************************)
(* DocMate sandbox: the host-side process runner (runner.ts), the          *)
(* ExecutionService facade (executionService.ts), the panel message        *)
(* handler of the extension and the webview cell script (sandbox_init.js). *)
(*                                                                         *)
(* The extension host is a single-threaded event loop: every handler       *)
(* (message handler, 'data', 'error', 'close' callbacks) is one atomic     *)
(* action.  Child processes and the webview run concurrently with it.      *)
(***************************************************************************)
EXTENDS Integers, Sequences, FiniteSets, TLC

\* ------------------------------------------------------------------ bounds
MaxRuns == 2
MaxChunks == 1

Runs == 1..MaxRuns
Cells == {"0", "1"}
Langs == {"c", "javascript"}
NoCell == "none"
Origins == {"stdout", "stderr"}

\* ------------------------------------------------------- language profiles
\* A LangConfigEntry.  deletefile is kept as its comma-separated fields.
\* The loaded media/langConfig.json: one registered profile with an extra
\* file to delete; every other key falls back.
LangConfig ==
  [l \in {"c"} |->
     [command |-> "gcc {file} && ./a.out", filename |-> "main.c",
      deletefile |-> <<"a.out", "">>]]

FALLBACK_CONF ==
  [command |-> "node {file}", filename |-> "docmate_exec.js", deletefile |-> <<>>]

\* A JSON.parse'd registry is an ordinary object: reading obj[key] finds the
\* object's own entries and, failing that, the members every object inherits
\* from Object.prototype; any other key reads as undefined.
Undefined == [tag |-> "undefined"]
ObjectPrototypeKeys == {"constructor", "toString"}
Inherited(key) == [tag |-> "function", name |-> key]
getProperty(obj, key) ==
  IF key \in DOMAIN obj THEN obj[key]
  ELSE IF key \in ObjectPrototypeKeys THEN Inherited(key)
       ELSE Undefined

\* a ?? b
nullish(a, b) == IF a = Undefined THEN b ELSE a

\* executionService.ts 97-100: this.langConfig[lang] ?? FALLBACK_CONF
resolveIn(registry, lang) == nullish(getProperty(registry, lang), FALLBACK_CONF)

\* resolveConf of a service whose constructor loaded LangConfig.
resolveConf(lang) == resolveIn(LangConfig, lang)

\* runner.ts 40-45: conf.filename if set, else a default by language.
tmpFileName(conf, lang) ==
  IF conf.filename # "" THEN conf.filename
  ELSE IF lang = "typescript" THEN "sandbox_temp.ts" ELSE "sandbox_temp.js"

\* A variant that gives every invocation a scratch file of its own.
tmpFilePathPerRun(r, lang) ==
  IF r = 1 THEN "main.c" ELSE "docmate_exec.js"

\* runner.ts 46: the path invocation r of runCommand writes, runs and
\* deletes.  The working directory is the one workspace root, so the path
\* is decided by the language alone.
tmpFilePath(r, lang) ==
  tmpFileName(resolveConf(lang), lang)

\* runner.ts 129-134: split(","), trim, drop the empty fields.
RECURSIVE deleteTargets(_)
deleteTargets(df) ==
  IF df = <<>> THEN <<>>
  ELSE IF Head(df) = "" THEN deleteTargets(Tail(df))
       ELSE <<Head(df)>> \o deleteTargets(Tail(df))

SeqRange(s) == {s[i] : i \in 1..Len(s)}

Paths ==
  UNION {{tmpFileName(resolveConf(l), l)} \cup SeqRange(deleteTargets(resolveConf(l).deletefile))
         : l \in Langs}

\* ------------------------------------------------------- command building
\* Strings are sequences of characters; Backtick and Quote name the two
\* characters that a TLA+ string cannot hold as they are.
Backtick == "BACKTICK"
Quote == "QUOTE"
MaxPieces == 3

Placeholder == <<"{", "f", "i", "l", "e", "}">>
Space == <<" ">>
Whitespace == {" ", "\t", "\n"}

\* String.prototype.trim
RECURSIVE trimStart(_)
trimStart(s) ==
  IF s # <<>> /\ Head(s) \in Whitespace THEN trimStart(Tail(s)) ELSE s
RECURSIVE trimEnd(_)
trimEnd(s) ==
  IF s # <<>> /\ s[Len(s)] \in Whitespace THEN trimEnd(SubSeq(s, 1, Len(s) - 1)) ELSE s
trim(s) == trimEnd(trimStart(s))

matchAt(s, pat, i) ==
  /\ i + Len(pat) - 1 <= Len(s)
  /\ SubSeq(s, i, i + Len(pat) - 1) = pat

\* String.prototype.includes
includes(s, pat) == \E i \in 1..Len(s) : matchAt(s, pat, i)

\* GetSubstitution of String.prototype.replace with a string replacement and
\* a pattern without capture groups: $$ is a dollar sign, $& the match,
\* $` the text before the match, $' the text after it; any other character
\* stands for itself.
RECURSIVE getSubstitution(_, _, _, _)
getSubstitution(repl, matched, before, after) ==
  IF repl = <<>> THEN <<>>
  ELSE IF Head(repl) = "$" /\ Len(repl) >= 2 /\ repl[2] \in {"$", "&", Backtick, Quote}
       THEN (CASE repl[2] = "$" -> <<"$">>
               [] repl[2] = "&" -> matched
               [] repl[2] = Backtick -> before
               [] OTHER -> after)
            \o getSubstitution(SubSeq(repl, 3, Len(repl)), matched, before, after)
       ELSE <<Head(repl)>> \o getSubstitution(Tail(repl), matched, before, after)

\* s.replace(/pat/g, repl) for a literal pattern: the matches are found left
\* to right, without overlap, and the inserted text is not rescanned.
RECURSIVE replaceFrom(_, _, _, _)
replaceFrom(s, pat, repl, i) ==
  IF i > Len(s) THEN <<>>
  ELSE IF matchAt(s, pat, i)
       THEN getSubstitution(repl, pat, SubSeq(s, 1, i - 1),
                            SubSeq(s, i + Len(pat), Len(s)))
            \o replaceFrom(s, pat, repl, i + Len(pat))
       ELSE <<s[i]>> \o replaceFrom(s, pat, repl, i + 1)
replaceAll(s, pat, repl) == replaceFrom(s, pat, repl, 1)

\* A variant that prefers the profile's command to the override.
baseCmdConfFirst(userExecCommand, confCommand) ==
  IF confCommand # <<>> THEN confCommand
  ELSE IF Len(trim(userExecCommand)) > 0 THEN trim(userExecCommand) ELSE <<>>

\* runner.ts 61-66: the chosen command
baseCmd(userExecCommand, confCommand) ==
  IF Len(trim(userExecCommand)) > 0 THEN trim(userExecCommand)
  ELSE IF confCommand # <<>> THEN confCommand ELSE <<>>

\* runner.ts 67-74: the command line handed to exec()
execCmd(base, tmpName) ==
  IF Len(base) = 0 THEN <<"n", "o", "d", "e", " ">> \o tmpName
  ELSE IF includes(base, Placeholder)
       THEN replaceAll(base, Placeholder, tmpName)
       ELSE trim(base \o Space \o tmpName)

\* The inputs: commands put together from at most MaxPieces pieces (so that
\* a placeholder may also arise across two pieces), and file names.
Pieces ==
  {Placeholder, Space, <<"r", "u", "n">>, <<"-", "-", "f", "l", "a", "g">>,
   <<"{", "f", "i">>, <<"l", "e", "}">>}
RECURSIVE Concats(_)
Concats(n) ==
  IF n = 0 THEN {<<>>}
  ELSE Concats(n - 1) \cup {a \o b : a \in Concats(n - 1), b \in Pieces}
UserCommands == Concats(MaxPieces)
ConfCommands == {<<>>, <<"n", "o", "d", "e", " ">> \o Placeholder, <<"p", "y">>}
FileNames ==
  {<<"x", ".", "p", "y">>, <<"m", ".", "c">>,
   <<"a", "$", "&", ".", "j", "s">>, <<"a", "$", "$", "b">>}

\* ------------------------------------------------------------ file system
Absent == [kind |-> "absent", by |-> 0]
CodeOf(r) == [kind |-> "code", by |-> r]
Artifact == [kind |-> "artifact", by |-> 0]

writeFileSync(f, p, c) == [f EXCEPT ![p] = c]

\* existsSync + unlinkSync inside try/catch: a refused deletion is swallowed.
tryUnlink(f, lk, p) == IF p \in lk THEN f ELSE [f EXCEPT ![p] = Absent]

RECURSIVE unlinkAll(_, _, _)
unlinkAll(f, lk, ts) ==
  IF ts = <<>> THEN f ELSE unlinkAll(tryUnlink(f, lk, Head(ts)), lk, Tail(ts))

\* ------------------------------------------------------------ exit status
Null == [isNull |-> TRUE, n |-> 0]
Num(k) == [isNull |-> FALSE, n |-> k]
ExitStatuses ==
  {[code |-> Num(0), signal |-> "null"],
   [code |-> Num(1), signal |-> "null"],
   [code |-> Null, signal |-> "SIGTERM"]}
SpawnErrorStatus == [code |-> Num(-2), signal |-> "null"]

VARIABLES
  fs,          \* working directory: path -> content
  locked,      \* paths whose deletion the OS refuses
  rst,         \* per run: position of runCommand
  rlang,       \* per run: language key
  rpanel,      \* per run: whether a panel (the sink) is attached
  rcell,       \* per run: the cell whose request started it (NoCell: none)
  execd,       \* per run: what the child process found at the temp path
  chunks,      \* per run: number of chunks received per origin
  pstatus,     \* per run: status the child process ended with
  result,      \* per run: what execute() returned
  returns,     \* per run: number of times execute() completed
  elog,        \* per run: kinds of the events posted to the sink, in order
  toView,      \* channel host -> webview
  toHost,      \* channel webview -> host
  activeIndex, \* webview: the single active index
  disabled,    \* webview: run control disabled per cell
  out,         \* webview: output buffer per cell
  overlapped,  \* webview: a run was requested while another cell's run was in flight
  cmdUser,     \* command building: userExecCommand
  cmdConf,     \* command building: conf.command
  cmdFile,     \* command building: tmpFileName
  cmdOut,      \* command building: execCmd
  cmdDone,     \* command building: execCmd has been computed
  resource,    \* registry: what media/langConfig.json holds
  langConfig,  \* registry: this.langConfig of the service
  constructed, \* registry: "no", or how the constructor ended
  resolved,    \* registry: <<key, value>> of each resolveConf call, in order
  iframe,      \* webview: per cell, the output area holds the preview iframe
  pre,         \* webview: per cell, the data-execution-output attribute
  host,        \* which panel handler answers: "stream" (runner events) or "result"
  posts,       \* webview: number of messages posted by the extension side
  stale,       \* webview: the message handled last was addressed to a cell that is gone
  preview,     \* webview: per cell, the iframes of the output area and their document
  lastRender,  \* webview: per cell, code and execution type of the latest isolated-render run
  cells,       \* webview: the keys of the cell registry (the Map `cells`)
  roots,       \* webview: the indices whose root element is in the document
  initialized, \* webview: the roots carrying data-sandbox-initialized="1"
  raf,         \* webview: per modal index, animation-frame callbacks not yet run
  buf,         \* per run: stdoutBuf and stderrBuf, as the chunks appended to each
  outcome,     \* per run: the value the promise of runCommand resolved with
  answered,    \* per run: result messages the one-shot handler posted for it
  count,       \* rate limit: the count stored in rate_limits/<clientId> (0: no document)
  reqPc,       \* rate limit: per request, its position in geminiProxy
  currentCount, \* rate limit: per request, the count it read
  isJudge,     \* rate limit: per request, it carries the valid judge token
  passed,      \* rate limit: requests without the token that passed the check
  cacheDir,    \* cache: the directory of the cache file exists
  cacheFile,   \* cache: what the cache file holds
  saved,       \* cache: per URL, the entry handed to the latest save call
  saves,       \* cache: number of save calls
  cached       \* cache: URL and return value of the latest find call

vars == <<fs, locked, rst, rlang, rpanel, rcell, execd, chunks, pstatus, result,
          returns, elog, toView, toHost, activeIndex, disabled, out, overlapped,
          cmdUser, cmdConf, cmdFile, cmdOut, cmdDone,
          resource, langConfig, constructed, resolved, iframe, pre, host, posts, stale,
          preview, lastRender, cells, roots, initialized, raf, buf, outcome,
          answered, count, reqPc, currentCount, isJudge, passed,
          cacheDir, cacheFile, saved, saves, cached>>

cmdVars == <<cmdUser, cmdConf, cmdFile, cmdOut, cmdDone>>
regVars == <<resource, langConfig, constructed, resolved>>
domVars == <<iframe, pre, host, posts, stale>>
pageVars == <<preview, lastRender, cells, roots, initialized, raf>>
limitVars == <<count, reqPc, currentCount, isJudge, passed>>
cacheVars == <<cacheDir, cacheFile, saved, saves, cached>>
svcVars == <<limitVars, cacheVars>>
hostVars == <<fs, locked, rst, rlang, rpanel, rcell, execd, chunks, pstatus, result, returns, elog,
              buf, outcome, answered>>
viewVars == <<activeIndex, disabled, out, overlapped>>

NotRead == [kind |-> "notread", by |-> 0]

\* The n-th chunk the process wrote to a stream; the text of a spawn error.
Chunk(o, n) == <<o, n>>
NoChunk == <<"none", 0>>
ErrText == <<"err", 0>>
NoOutcome == [stdout |-> <<>>, stderr |-> <<>>, code |-> Null, signal |-> "unsettled"]
NoStatus == [code |-> Null, signal |-> "none"]
Pending == [settled |-> "pending", success |-> FALSE]

RunnerInit ==
  /\ fs \in [Paths -> {Absent, Artifact}]
  /\ \A p \in Paths : fs[p] = Artifact =>
        \E l \in Langs : p \in SeqRange(deleteTargets(resolveConf(l).deletefile))
  /\ locked \in SUBSET Paths
  /\ rst = [r \in Runs |-> "unused"]
  /\ rlang = [r \in Runs |-> "javascript"]
  /\ rpanel = [r \in Runs |-> FALSE]
  /\ rcell = [r \in Runs |-> NoCell]
  /\ execd = [r \in Runs |-> NotRead]
  /\ chunks = [r \in Runs |-> [o \in Origins |-> 0]]
  /\ pstatus = [r \in Runs |-> NoStatus]
  /\ result = [r \in Runs |-> Pending]
  /\ returns = [r \in Runs |-> 0]
  /\ elog = [r \in Runs |-> <<>>]
  /\ buf = [r \in Runs |-> [o \in Origins |-> <<>>]]
  /\ outcome = [r \in Runs |-> NoOutcome]
  /\ answered = [r \in Runs |-> 0]
  /\ toView = <<>>
  /\ toHost = <<>>
  /\ activeIndex = "null"
  /\ disabled = [c \in Cells |-> FALSE]
  /\ out = [c \in Cells |-> <<>>]
  /\ overlapped = FALSE

CmdIdle ==
  /\ cmdUser = <<>>
  /\ cmdConf = <<>>
  /\ cmdFile = <<>>
  /\ cmdOut = <<>>
  /\ cmdDone = FALSE

\* media/langConfig.json holds LangConfig and the constructor has loaded it.
RegistryLoaded ==
  /\ resource = [kind |-> "json", value |-> LangConfig]
  /\ langConfig = LangConfig
  /\ constructed = "returned"
  /\ resolved = <<>>

\* The page as rendered: no preview iframe, no pre-generated output, nothing
\* posted yet.
DomIdle ==
  /\ iframe = [c \in Cells |-> FALSE]
  /\ pre = [c \in Cells |-> ""]
  /\ host = "stream"
  /\ posts = 0
  /\ stale = FALSE

ModalCells == {"modal-0", "modal-1"}

\* No iframe in the output area; no isolated-render run yet.
NoDoc == [page |-> "none", script |-> ""]
NoPreview == [frames |-> 0, srcdoc |-> NoDoc]
NoRender == [code |-> "", executionType |-> "none"]

\* sandbox_init.js 876: initExistingRoots has run initCell on every root of
\* the page; no modal has been opened.
PageIdle ==
  /\ preview = [c \in Cells |-> NoPreview]
  /\ lastRender = [c \in Cells |-> NoRender]
  /\ cells = Cells
  /\ roots = Cells
  /\ initialized = Cells
  /\ raf = [m \in ModalCells |-> 0]

\* ---------------------------------------------- services outside the runner
\* part_001 12: the request limit per client id (the default of
\* MAX_REQUEST_LIMIT).
MAX_REQUESTS_PER_IP == 5

MaxRequests == 3
Requests == 1..MaxRequests

\* No request has arrived; no document in rate_limits for the client id.
LimitIdle ==
  /\ count = 0
  /\ reqPc = [q \in Requests |-> "new"]
  /\ currentCount = [q \in Requests |-> 0]
  /\ isJudge = [q \in Requests |-> FALSE]
  /\ passed = 0

Urls == {"u1", "u2"}

\* cacheService.ts 7-17: an entry, here its URL and the number of the save
\* call that produced it (standing for summary, examples and savedAt);
\* NoEntry is the null that find returns.
CacheEntry(url, n) == [url |-> url, summary |-> n]
NoEntry == CacheEntry("", 0)

\* The cache file: missing, not a JSON array, or a JSON array of entries.
NoFile == [kind |-> "absent", entries |-> <<>>]
BrokenFile == [kind |-> "broken", entries |-> <<>>]
ArrayFile(all) == [kind |-> "array", entries |-> all]

\* The constructed service: nothing saved or looked up, no cache file.
CacheIdle ==
  /\ cacheDir = TRUE
  /\ cacheFile = NoFile
  /\ saved = [u \in Urls |-> NoEntry]
  /\ saves = 0
  /\ cached = <<>>

SvcIdle == LimitIdle /\ CacheIdle

Init == RunnerInit /\ CmdIdle /\ RegistryLoaded /\ DomIdle /\ PageIdle /\ SvcIdle

\* ------------------------------------------------------------- the sink
\* A message to the webview.  Runner events have a kind; exit events carry
\* the exit code; the one-shot result message has command "result" and an index.
Ev(kind, r, origin) ==
  [command |-> "none", kind |-> kind, run |-> r, origin |-> origin,
   code |-> "none", index |-> "none", stdout |-> NoChunk, stderr |-> NoChunk]

\* runner.ts 101, 108: { kind: "stream", stdout: s } or { kind: "stream", stderr: s }
StreamEv(r, o, s) == [Ev("stream", r, o) EXCEPT ![o] = s]
ExitEv(r, st) == [Ev("exit", r, "-") EXCEPT !.code = st.code]

\* panel.webview.postMessage, guarded by `if (panel)`.
post(q, panel, evs) == IF panel THEN q \o evs ELSE q
logged(l, panel, evs) ==
  IF panel THEN l \o [i \in 1..Len(evs) |-> evs[i].kind] ELSE l

\* executionService.ts 129: success = result.code === 0
successFalsy(code) == code.isNull \/ code.n = 0
success(code) == ~code.isNull /\ code.n = 0

\* executionService.ts 130-136: the value execute() returns after runCommand
Fulfilled(code) == [settled |-> "fulfilled", success |-> success(code)]

\* executionService.ts 137-143: the catch turns a throw into a value
executeRethrow == [settled |-> "rejected", success |-> FALSE]
executeCatch == [settled |-> "fulfilled", success |-> FALSE]

UsedRuns == {r \in Runs : rst[r] # "unused"}
Issued == Cardinality(UsedRuns) + Len(toHost)
NextRun == CHOOSE r \in Runs : rst[r] = "unused" /\ \A q \in Runs : q < r => rst[q] # "unused"

\* runner.ts 51-57: events of a failed temp-file write
writeFailureEventsContinue(r) == <<Ev("error", r, "-"), Ev("status", r, "-")>>
writeFailureEvents(r) == <<Ev("error", r, "-")>>

\* runner.ts 82-91: the file system after a synchronous exec() throw
spawnCatchKeepFile(f, lk, p) == f
spawnCatchFs(f, lk, p) == tryUnlink(f, lk, p)

\* runner.ts 37-165 with executionService.ts 111-143: the synchronous part of
\* execute(): write the temp file, post status, exec, register the handlers.
\*   w: outcome of writeFileSync; s: outcome of exec()
runCommand(r, lang, panel) ==
  LET p == tmpFilePath(r, lang) IN
  \E w \in {"ok", "fail"}, s \in {"ok", "throw", "async"} :
    /\ rlang' = [rlang EXCEPT ![r] = lang]
    /\ rpanel' = [rpanel EXCEPT ![r] = panel]
    /\ UNCHANGED <<locked, execd, chunks, pstatus, buf, outcome, answered>>
    /\ IF w = "fail"
       THEN /\ s = "ok"
            /\ rst' = [rst EXCEPT ![r] = "writeFailed"]
            /\ toView' = post(toView, panel, writeFailureEvents(r))
            /\ elog' = [elog EXCEPT ![r] = logged(@, panel, writeFailureEvents(r))]
            /\ fs' = fs
            /\ result' = [result EXCEPT ![r] = executeCatch]
            /\ returns' = [returns EXCEPT ![r] = @ + 1]
       ELSE IF s = "throw"
       THEN LET evs == <<Ev("status", r, "-"), Ev("error", r, "-")>> IN
            /\ rst' = [rst EXCEPT ![r] = "spawnThrew"]
            /\ toView' = post(toView, panel, evs)
            /\ elog' = [elog EXCEPT ![r] = logged(@, panel, evs)]
            /\ fs' = spawnCatchFs(writeFileSync(fs, p, CodeOf(r)), locked, p)
            /\ result' = [result EXCEPT ![r] = executeCatch]
            /\ returns' = [returns EXCEPT ![r] = @ + 1]
       ELSE LET evs == <<Ev("status", r, "-")>> IN
            /\ rst' = [rst EXCEPT ![r] = IF s = "ok" THEN "running" ELSE "spawnfail"]
            /\ toView' = post(toView, panel, evs)
            /\ elog' = [elog EXCEPT ![r] = logged(@, panel, evs)]
            /\ fs' = writeFileSync(fs, p, CodeOf(r))
            /\ UNCHANGED <<result, returns>>

\* executionService.ts 102-144: a caller invokes execute(); the panel handlers
\* pass their panel, the documentation generator (part_011 282-306, up to
\* five files at a time) passes no options.
Execute(lang, panel) ==
  /\ Issued < MaxRuns
  /\ ~panel => lang = "javascript"
  /\ runCommand(NextRun, lang, panel)
  /\ UNCHANGED <<rcell, toHost, activeIndex, disabled, out, overlapped, cmdVars, regVars, domVars, pageVars, svcVars>>

\* part_007 93-109: the panel's message handler receives a run request
HostReceive ==
  /\ toHost # <<>>
  /\ runCommand(NextRun, Head(toHost).language, TRUE)
  /\ rcell' = [rcell EXCEPT ![NextRun] = Head(toHost).index]
  /\ toHost' = Tail(toHost)
  /\ UNCHANGED <<viewVars, cmdVars, regVars, domVars, pageVars, svcVars>>

\* ------------------------------------------------------ the child process
\* The command runs the temp file: it opens the cwd-relative name given on
\* the command line and, when it found a source there, leaves the build
\* products the profile lists in deletefile.
ProcRun(r) ==
  /\ rst[r] = "running"
  /\ execd[r] = NotRead
  /\ LET found == fs[tmpFilePath(r, rlang[r])]
         products == SeqRange(deleteTargets(resolveConf(rlang[r]).deletefile)) IN
       /\ execd' = [execd EXCEPT ![r] = found]
       /\ fs' = IF found = Absent THEN fs
                ELSE [p \in Paths |-> IF p \in products THEN Artifact ELSE fs[p]]
  /\ UNCHANGED <<locked, rst, rlang, rpanel, rcell, chunks, pstatus, result, returns,
                 buf, outcome, answered, elog, toView, toHost, activeIndex, disabled, out, overlapped, cmdVars, regVars, domVars, pageVars, svcVars>>

\* A variant of the 'data' handlers that only buffers.
dataHandlerEventsNone(r, o, s) == <<>>

\* runner.ts 101, 108: the event of a 'data' handler
dataHandlerEvents(r, o, s) == <<StreamEv(r, o, s)>>

\* A variant that collects the output only for a caller without a sink.
collectSinkless(b, panel, s) == IF panel THEN b ELSE Append(b, s)

\* runner.ts 100, 107: stdoutBuf += s, stderrBuf += s, with or without a sink
collect(b, panel, s) == Append(b, s)

\* runner.ts 97-110: 'data' on child.stdout / child.stderr: the chunk is
\* appended to the buffer of its stream and posted to the sink.  A process
\* writes at most cap chunks to each stream.
onData(r, o, cap) ==
  /\ rst[r] = "running"
  /\ chunks[r][o] < cap
  /\ LET s == Chunk(o, chunks[r][o] + 1) IN
       /\ chunks' = [chunks EXCEPT ![r][o] = @ + 1]
       /\ buf' = [buf EXCEPT ![r][o] = collect(@, rpanel[r], s)]
       /\ toView' = post(toView, rpanel[r], dataHandlerEvents(r, o, s))
       /\ elog' = [elog EXCEPT ![r] = logged(@, rpanel[r], dataHandlerEvents(r, o, s))]
  /\ UNCHANGED <<fs, locked, rst, rlang, rpanel, rcell, execd, pstatus, result, returns,
                 outcome, answered, toHost, activeIndex, disabled, out, overlapped, cmdVars, regVars, domVars, pageVars, svcVars>>

DataHandler(r, o) == onData(r, o, MaxChunks)

\* runner.ts 149-164: events of the 'error' handler
errorHandlerEventsWithExit(r) == <<Ev("error", r, "-"), Ev("exit", r, "-")>>
errorHandlerEvents(r) == <<Ev("error", r, "-")>>

\* resolve() of the promise awaited at runner.ts 113: only the first call
\* settles it, and execute() then returns once.
settle(res, value) == IF res.settled = "pending" THEN value ELSE res
settleCount(res, n) == IF res.settled = "pending" THEN n + 1 ELSE n

\* resolve() of the promise of runner.ts 113: a settled promise keeps its value.
resolve(res, old, value) == IF res.settled = "pending" THEN value ELSE old

\* runner.ts 158-163: the value the 'error' handler resolves with
errorOutcome(b) ==
  [stdout |-> b.stdout, stderr |-> Append(b.stderr, ErrText), code |-> Null, signal |-> "null"]

\* runner.ts 146: the value the 'close' handler resolves with
closeOutcome(b, st) ==
  [stdout |-> b.stdout, stderr |-> b.stderr, code |-> st.code, signal |-> st.signal]

\* runner.ts 149-164: 'error' (the process could not be spawned)
ErrorHandler(r) ==
  /\ rst[r] = "spawnfail"
  /\ rst' = [rst EXCEPT ![r] = "errored"]
  /\ toView' = post(toView, rpanel[r], errorHandlerEvents(r))
  /\ elog' = [elog EXCEPT ![r] = logged(@, rpanel[r], errorHandlerEvents(r))]
  /\ fs' = tryUnlink(fs, locked, tmpFilePath(r, rlang[r]))
  /\ result' = [result EXCEPT ![r] = settle(@, Fulfilled(Null))]
  /\ returns' = [returns EXCEPT ![r] = settleCount(result[r], @)]
  /\ outcome' = [outcome EXCEPT ![r] = resolve(result[r], @, errorOutcome(buf[r]))]
  /\ UNCHANGED <<locked, rlang, rpanel, rcell, execd, chunks, pstatus, buf, answered,
                 toHost, activeIndex, disabled, out, overlapped, cmdVars, regVars, domVars, pageVars, svcVars>>

\* runner.ts 120: the event of the 'close' handler
closeHandlerEventsThenStatus(r, st) == <<ExitEv(r, st), Ev("status", r, "-")>>
closeHandlerEvents(r, st) == <<ExitEv(r, st)>>

\* A variant of the cleanup in which the first refused deletion ends it.
RECURSIVE unlinkUntilRefused(_, _, _)
unlinkUntilRefused(f, lk, ts) ==
  IF ts = <<>> \/ Head(ts) \in lk THEN f
  ELSE unlinkUntilRefused([f EXCEPT ![Head(ts)] = Absent], lk, Tail(ts))
closeCleanupAbort(f, lk, tmp, targets) == unlinkUntilRefused(f, lk, <<tmp>> \o targets)

\* A variant of the 'close' handler that resolves without the cleanup.
closeCleanupSkipped(f, lk, tmp, targets) == f

\* runner.ts 122-144: the temp file, then each target of deletefile, each in
\* a try/catch of its own.
closeCleanup(f, lk, tmp, targets) == unlinkAll(tryUnlink(f, lk, tmp), lk, targets)

\* runner.ts 119-147: 'close' (the process ended and its streams closed;
\* after a failed spawn 'close' follows 'error' with the negative errno)
CloseHandler(r, st) ==
  /\ \/ rst[r] = "running" /\ st \in ExitStatuses
     \/ rst[r] = "errored" /\ st = SpawnErrorStatus
  /\ rst' = [rst EXCEPT ![r] = "closed"]
  /\ pstatus' = [pstatus EXCEPT ![r] = st]
  /\ toView' = post(toView, rpanel[r], closeHandlerEvents(r, st))
  /\ elog' = [elog EXCEPT ![r] = logged(@, rpanel[r], closeHandlerEvents(r, st))]
  /\ fs' = closeCleanup(fs, locked, tmpFilePath(r, rlang[r]),
                        deleteTargets(resolveConf(rlang[r]).deletefile))
  /\ result' = [result EXCEPT ![r] = settle(@, Fulfilled(st.code))]
  /\ returns' = [returns EXCEPT ![r] = settleCount(result[r], @)]
  /\ outcome' = [outcome EXCEPT ![r] = resolve(result[r], @, closeOutcome(buf[r], st))]
  /\ UNCHANGED <<locked, rlang, rpanel, rcell, execd, chunks, buf, answered,
                 toHost, activeIndex, disabled, out, overlapped, cmdVars, regVars, domVars, pageVars, svcVars>>

\* ------------------------------------------------------------ the webview
Terminal == {"closed", "writeFailed", "spawnThrew"}

\* A request of cell c is in flight: sent and not yet received, or its run
\* has not ended, or events of its run are still on their way.
InFlight(c) ==
  \/ \E i \in 1..Len(toHost) : toHost[i].index = c
  \/ \E r \in Runs : /\ rcell[r] = c
                      /\ \/ rst[r] \notin Terminal
                         \/ \E i \in 1..Len(toView) : toView[i].run = r

\* The executionType of window.LANG_CONFIG[lang], "terminal" when unset.
ExecutionType ==
  [l \in {"html", "react", "vue"} |->
     IF l = "html" THEN "iframe-html"
     ELSE IF l = "react" THEN "iframe-react" ELSE "iframe-vue"]
currentExecutionType(lang) ==
  IF lang \in DOMAIN ExecutionType THEN ExecutionType[lang] ELSE "terminal"

\* A variant that takes no execution type for an isolated-render one.
isIframeTypeNever(executionType) == FALSE

\* sandbox_init.js 513-517
isIframeType(executionType) ==
  executionType \in {"iframe-html", "iframe-react", "iframe-vue"}

\* sandbox_init.js 525-548: the iframe is created once; creating it empties
\* the output area.
renderIframe(o, fr, c) == IF fr[c] THEN o ELSE [o EXCEPT ![c] = <<>>]

\* sandbox_init.js 448, 478: code.replace(/<\/script/gi, '<\\/script')
escapeScript(code) == IF code = "</script>" THEN "<\\/script>" ELSE code

\* sandbox_init.js 433-506: the document of an isolated-render run: the code
\* itself for HTML, a page loading the framework around the escaped code for
\* React and Vue.
buildSrcdoc(code, executionType) ==
  CASE executionType = "iframe-html" -> [page |-> "code", script |-> code]
    [] executionType = "iframe-react" -> [page |-> "react", script |-> escapeScript(code)]
    [] executionType = "iframe-vue" -> [page |-> "vue", script |-> escapeScript(code)]
    [] OTHER -> [page |-> "pre", script |-> code]

\* A variant that inserts a new iframe on every run.
renderIframeAlwaysNew(pv, srcdoc) == [frames |-> pv.frames + 1, srcdoc |-> srcdoc]

\* sandbox_init.js 525-548, the iframes of the output area: the one found by
\* querySelector is reused, one is created when there is none; its srcdoc is
\* assigned either way.
renderIframeInto(pv, srcdoc) ==
  [frames |-> IF pv.frames > 0 THEN pv.frames ELSE 1, srcdoc |-> srcdoc]

\* A variant of the request that leaves the cell's index out.
runPayloadNoIndex(c, lang, code, execCommand) ==
  [command |-> "run", language |-> lang, code |-> code,
   execCommand |-> execCommand, index |-> "none"]

\* sandbox_init.js 717-723: the run request
runPayload(c, lang, code, execCommand) ==
  [command |-> "run", language |-> lang, code |-> code,
   execCommand |-> execCommand, index |-> c]

\* sandbox_init.js 694-727: click on the run button of cell c, whose language
\* selector shows lang, whose editor holds code and whose command box holds
\* execCommand.
PressRun(c, lang, code, execCommand) ==
  /\ c \in DOMAIN out
  /\ ~disabled[c]
  /\ IF isIframeType(currentExecutionType(lang))
     THEN /\ out' = renderIframe(out, iframe, c)
          /\ iframe' = [iframe EXCEPT ![c] = TRUE]
          /\ preview' = [preview EXCEPT ![c] =
                           renderIframeInto(@, buildSrcdoc(code, currentExecutionType(lang)))]
          /\ lastRender' = [lastRender EXCEPT ![c] =
                              [code |-> code, executionType |-> currentExecutionType(lang)]]
          /\ UNCHANGED <<disabled, activeIndex, toHost, overlapped>>
     ELSE /\ Issued < MaxRuns
          /\ out' = [out EXCEPT ![c] = <<>>]
          /\ iframe' = [iframe EXCEPT ![c] = FALSE]
          /\ preview' = [preview EXCEPT ![c] = NoPreview]
          /\ lastRender' = [lastRender EXCEPT ![c] = NoRender]
          /\ disabled' = [disabled EXCEPT ![c] = TRUE]
          /\ activeIndex' = c
          /\ toHost' = Append(toHost, runPayload(c, lang, code, execCommand))
          /\ overlapped' = (overlapped \/ \E d \in DOMAIN out \ {c} : InFlight(d))
  /\ UNCHANGED <<hostVars, toView, cmdVars, regVars, pre, host, posts, stale,
                 cells, roots, initialized, raf, svcVars>>

\* A variant that re-enables every cell's button.
restoreRunBtnAll(d, index) == [c \in DOMAIN d |-> FALSE]

\* sandbox_init.js 1015-1021: the button is found through the document.
restoreRunBtn(d, index) ==
  IF index \in DOMAIN d THEN [d EXCEPT ![index] = FALSE] ELSE d

\* A variant of cell.append that writes to every cell.
cellAppendAll(o, fr, index, entry) ==
  [c \in DOMAIN o |-> IF fr[c] THEN o[c] ELSE Append(o[c], entry)]

\* cells.get(index).append(s) (sandbox_init.js 767-773): nothing without such
\* a cell, and nothing while its output area holds the preview iframe.
cellAppend(o, fr, index, entry) ==
  IF index \in DOMAIN o /\ ~fr[index]
  THEN [o EXCEPT ![index] = Append(@, entry)]
  ELSE o

\* append to the active cell (sandbox_init.js 1038-1059)
appendActive(o, m) ==
  IF activeIndex # "null" THEN cellAppend(o, iframe, activeIndex, <<m.run, m.kind>>) ELSE o

\* A variant of the exit/error branch that keeps the active index.
clearActiveKeep(a) == a

\* sandbox_init.js 1049, 1061: activeIndex = null
clearActive(a) == "null"

\* A variant that routes a result message to the active cell.
resultIndexActive(m) == activeIndex

\* sandbox_init.js 1024-1025: const index = String(msg.index)
resultIndex(m) == m.index

\* The cell index a message is routed by: its own for a result message, the
\* active index ("null" when none) for a runner event.
addressee(m) ==
  IF m.command = "result" /\ m.index # "none" THEN m.index ELSE activeIndex

\* sandbox_init.js 1012-1064: the window 'message' listener
Deliver ==
  /\ toView # <<>>
  /\ LET m == Head(toView) IN
       /\ toView' = Tail(toView)
       /\ stale' = LET to == addressee(m) IN to # "null" /\ to \notin DOMAIN out
       /\ IF m.command = "result" /\ m.index # "none"
          THEN /\ out' = cellAppend(out, iframe, resultIndex(m), <<m.run, "result">>)
               /\ disabled' = restoreRunBtn(disabled, m.index)
               /\ UNCHANGED activeIndex
          ELSE IF m.kind \in {"exit", "error"}
          THEN /\ out' = appendActive(out, m)
               /\ disabled' = IF activeIndex # "null"
                              THEN restoreRunBtn(disabled, activeIndex) ELSE disabled
               /\ activeIndex' = clearActive(activeIndex)
          ELSE IF m.kind \in {"stream", "status"}
          THEN /\ out' = appendActive(out, m)
               /\ UNCHANGED <<activeIndex, disabled>>
          ELSE UNCHANGED <<out, activeIndex, disabled>>
  /\ UNCHANGED <<hostVars, toHost, overlapped, cmdVars, regVars, iframe, pre, host, posts,
                 pageVars, svcVars>>

\* ------------------------------------------------------- the modal clone
modalIndex(srcIndex) == IF srcIndex = "0" THEN "modal-0" ELSE "modal-1"
MaxFrames == 2

\* sandbox_init.js 575-776: initCell on the root with index idx.  A root that
\* carries data-sandbox-initialized is left alone; otherwise the attribute is
\* set, the UI is built (empty output, enabled run button) and the cell object
\* is registered with cells.set.
initCell(idx) ==
  IF idx \in initialized
  THEN UNCHANGED <<out, disabled, iframe, preview, lastRender, cells, initialized>>
  ELSE LET with(f, v) == [c \in DOMAIN f \cup {idx} |-> IF c = idx THEN v ELSE f[c]]
       IN  /\ initialized' = initialized \cup {idx}
           /\ out' = with(out, <<>>)
           /\ disabled' = with(disabled, FALSE)
           /\ iframe' = with(iframe, FALSE)
           /\ preview' = with(preview, NoPreview)
           /\ lastRender' = with(lastRender, NoRender)
           /\ cells' = cells \cup {idx}

\* sandbox_init.js 930-976: a click on a cell's header opens the modal with a
\* fresh cell "modal-<srcIndex>" (initCell runs on the next animation frame;
\* until then no message finds the cell).  The overlay covers the page, so
\* one modal is open at a time.
openModal(src) ==
  /\ src \in Cells
  /\ roots \cap ModalCells = {}
  /\ roots' = roots \cup {modalIndex(src)}
  /\ initCell(modalIndex(src))
  /\ UNCHANGED <<hostVars, toView, toHost, activeIndex, overlapped, cmdVars, regVars, pre, host, posts, stale, raf, svcVars>>

\* sandbox_init.js 930-971: openModal up to its requestAnimationFrame call:
\* the clone's root is in the document, its initCell is still to come.
openModalDeferred(src) ==
  /\ src \in Cells
  /\ roots \cap ModalCells = {}
  /\ raf[modalIndex(src)] < MaxFrames
  /\ roots' = roots \cup {modalIndex(src)}
  /\ raf' = [raf EXCEPT ![modalIndex(src)] = @ + 1]
  /\ UNCHANGED <<hostVars, viewVars, toView, toHost, cmdVars, regVars, domVars,
                 preview, lastRender, cells, initialized, svcVars>>

\* sandbox_init.js 972-975: the animation-frame callback looks the root up
\* by id and initialises it when it is still there.
animationFrame(mi) ==
  /\ raf[mi] > 0
  /\ raf' = [raf EXCEPT ![mi] = @ - 1]
  /\ IF mi \in roots
     THEN initCell(mi)
     ELSE UNCHANGED <<out, disabled, iframe, preview, lastRender, cells, initialized>>
  /\ UNCHANGED <<hostVars, toView, toHost, activeIndex, overlapped, cmdVars, regVars, pre, host, posts, stale, roots, svcVars>>

\* sandbox_init.js 861-874: window.__sandbox_init runs initCell on every
\* root found in the document.
sandboxInit(idx) ==
  /\ idx \in roots
  /\ initCell(idx)
  /\ UNCHANGED <<hostVars, toView, toHost, activeIndex, overlapped, cmdVars, regVars, pre, host, posts, stale, roots, raf, svcVars>>

\* A variant of closeModal that leaves the registry as it is.
cellsDeleteNone(reg, idx) == reg

\* sandbox_init.js 985-989: cells.delete(idx)
cellsDelete(reg, idx) == reg \ {idx}

\* sandbox_init.js 978-999: cells.delete(idx) for the first data-index found
\* in the modal card, and the clone leaves the document
closeModal ==
  /\ roots \cap ModalCells # {}
  /\ LET without(f) == [c \in DOMAIN f \ ModalCells |-> f[c]]
         idx == CHOOSE m \in ModalCells : m \in roots
     IN  /\ out' = without(out)
         /\ disabled' = without(disabled)
         /\ iframe' = without(iframe)
         /\ preview' = without(preview)
         /\ lastRender' = without(lastRender)
         /\ cells' = cellsDelete(cells, idx)
         /\ roots' = roots \ ModalCells
         /\ initialized' = initialized \ ModalCells
  /\ UNCHANGED <<hostVars, toView, toHost, activeIndex, overlapped, cmdVars, regVars, pre, host, posts, stale, raf, svcVars>>

\* The process runner and its callers.
Next ==
  \/ \E l \in Langs, panel \in BOOLEAN : Execute(l, panel)
  \/ \E r \in Runs : ProcRun(r)
  \/ \E r \in Runs, o \in Origins : DataHandler(r, o)
  \/ \E r \in Runs : ErrorHandler(r)
  \/ \E r \in Runs, st \in ExitStatuses \cup {SpawnErrorStatus} : CloseHandler(r, st)

Spec == Init /\ [][Next]_vars

\* One panel: the webview's cells, the panel's message handler and the runs
\* it starts, in a clean working directory.
InitPanel ==
  /\ Init
  /\ locked = {}
  /\ \A p \in Paths : fs[p] = Absent

NextPanel ==
  \/ \E c \in Cells, l \in Langs : PressRun(c, l, "code", "")
  \/ HostReceive
  \/ Deliver
  \/ \E r \in Runs : ProcRun(r)
  \/ \E r \in Runs, o \in Origins : DataHandler(r, o)
  \/ \E r \in Runs : ErrorHandler(r)
  \/ \E r \in Runs, st \in ExitStatuses \cup {SpawnErrorStatus} : CloseHandler(r, st)

SpecPanel == InitPanel /\ [][NextPanel]_vars

\* The runner with processes that write several chunks to each stream, in a
\* clean working directory: the first caller passes a sink, the second none.
StreamChunks == 2

NextStream ==
  \/ Execute("javascript", UsedRuns = {})
  \/ \E r \in Runs : ProcRun(r)
  \/ \E r \in Runs, o \in Origins : onData(r, o, StreamChunks)
  \/ \E r \in Runs : ErrorHandler(r)
  \/ \E r \in Runs, st \in ExitStatuses \cup {SpawnErrorStatus} : CloseHandler(r, st)

SpecStream == InitPanel /\ [][NextStream]_vars

\* ------------------------------------------------------ the webview alone
MaxPosts == 2

\* extension.ts 87-102: the one-shot result message, addressed by index
ResultMsg(index) ==
  [Ev("none", 0, "-") EXCEPT !.command = "result", !.index = index]

\* The events of a run as the runner posts them (the run itself is not
\* followed here).
RunnerMessages ==
  {Ev("stream", 0, "stdout"), Ev("status", 0, "-"), Ev("error", 0, "-"),
   ExitEv(0, [code |-> Num(0)]), ExitEv(0, [code |-> Num(1)])}

ViewMessages == RunnerMessages \cup {ResultMsg(i) : i \in Cells \cup ModalCells}

ViewLangs == {"javascript", "html", "react", "vue"}
Codes == {"code", "edited"}

\* The clicks followed with the message traffic: a terminal run of either
\* code, and the isolated-render run of the one HTML document.
ViewInputs ==
  {in \in ViewLangs \X Codes :
     in[1] = "javascript" \/ in = <<"html", "code">>}

RemoveAt(q, i) == SubSeq(q, 1, i - 1) \o SubSeq(q, i + 1, Len(q))

\* The extension side answers the requests it received.  The handler of
\* extension.ts 87-102 posts one result message per request, carrying the
\* request's index, in any order; the handler of part_007 93-109 lets the
\* runner post its events, the last of a run being exit or error.
HostPost(m) ==
  /\ posts < MaxPosts
  /\ toHost # <<>>
  /\ IF host = "result"
     THEN \E i \in 1..Len(toHost) :
            /\ m = ResultMsg(toHost[i].index)
            /\ toHost' = RemoveAt(toHost, i)
     ELSE /\ m \in RunnerMessages
          /\ toHost' = IF m.kind \in {"exit", "error"} THEN Tail(toHost) ELSE toHost
  /\ posts' = posts + 1
  /\ toView' = Append(toView, m)
  /\ UNCHANGED <<hostVars, viewVars, cmdVars, regVars, iframe, pre, host, stale, pageVars, svcVars>>

\* The rendered page: one example cell carries a pre-generated output, the
\* other none.
InitView ==
  /\ RunnerInit
  /\ locked = {}
  /\ \A p \in Paths : fs[p] = Absent
  /\ CmdIdle
  /\ RegistryLoaded
  /\ iframe = [c \in Cells |-> FALSE]
  /\ pre = [c \in Cells |-> IF c = "0" THEN "expected" ELSE ""]
  /\ host \in {"stream", "result"}
  /\ posts = 0
  /\ stale = FALSE
  /\ PageIdle
  /\ SvcIdle

NextView ==
  \/ \E c \in Cells \cup ModalCells, in \in ViewInputs : PressRun(c, in[1], in[2], "")
  \/ \E m \in ViewMessages : HostPost(m)
  \/ Deliver
  \/ \E c \in Cells : openModal(c)
  \/ closeModal

SpecView == InitView /\ [][NextView]_vars

\* The page alone: clicks on run buttons and headers, animation frames,
\* closing the modal; no message arrives.
DomInputs ==
  {<<"javascript", "code">>} \cup ({"html", "react", "vue"} \X {"code", "</script>"})

NextDom ==
  \/ \E c \in Cells \cup ModalCells, in \in DomInputs : PressRun(c, in[1], in[2], "")
  \/ \E c \in Cells : openModalDeferred(c)
  \/ \E m \in ModalCells : animationFrame(m)
  \/ \E c \in Cells \cup ModalCells : sandboxInit(c)
  \/ closeModal

InitDom == InitView /\ host = "stream"

SpecDom == InitDom /\ [][NextDom]_vars

\* ------------------------------------------------- the one-shot result mode
\* A variant that answers with the index of the latest request.
answerIndexLatest(r) ==
  rcell[CHOOSE q \in UsedRuns : \A x \in UsedRuns : x <= q]

\* extension.ts 94: index: message.index, the message of this invocation
answerIndex(r) == rcell[r]

\* extension.ts 92-96: the result message posted for run r
ResultOf(r) == [ResultMsg(answerIndex(r)) EXCEPT !.run = r]

\* extension.ts 87-91 with docMateController.ts 102-116: the handler receives
\* a run request and awaits runCode(message.code): the language is the
\* default one, no sink is passed.
ResultReceive ==
  /\ host = "result"
  /\ toHost # <<>>
  /\ runCommand(NextRun, "javascript", FALSE)
  /\ rcell' = [rcell EXCEPT ![NextRun] = Head(toHost).index]
  /\ toHost' = Tail(toHost)
  /\ UNCHANGED <<viewVars, cmdVars, regVars, domVars, pageVars, svcVars>>

\* extension.ts 92-96: execute() has returned and the handler goes on after
\* its await: it posts the result with the index of its own message.
ResultPost(r) ==
  /\ host = "result"
  /\ answered[r] < returns[r]
  /\ answered' = [answered EXCEPT ![r] = @ + 1]
  /\ toView' = Append(toView, ResultOf(r))
  /\ UNCHANGED <<fs, locked, rst, rlang, rpanel, rcell, execd, chunks, pstatus, result,
                 returns, elog, buf, outcome, toHost, viewVars, cmdVars, regVars, domVars,
                 pageVars, svcVars>>

InitResult == InitView /\ host = "result"

NextResult ==
  \/ \E c \in Cells, k \in Codes : PressRun(c, "javascript", k, "")
  \/ ResultReceive
  \/ \E r \in Runs : ResultPost(r)
  \/ Deliver
  \/ \E r \in Runs : ProcRun(r)
  \/ \E r \in Runs, o \in Origins : DataHandler(r, o)
  \/ \E r \in Runs : ErrorHandler(r)
  \/ \E r \in Runs, st \in ExitStatuses \cup {SpawnErrorStatus} : CloseHandler(r, st)

SpecResult == InitResult /\ [][NextResult]_vars

\* Command building on its own: runner.ts 60-74 applied to drawn inputs.
BuildCommand ==
  /\ ~cmdDone
  /\ cmdOut' = execCmd(baseCmd(cmdUser, cmdConf), cmdFile)
  /\ cmdDone' = TRUE
  /\ UNCHANGED <<cmdUser, cmdConf, cmdFile, hostVars, viewVars, toView, toHost, regVars, domVars, pageVars, svcVars>>

InitCmd ==
  /\ RunnerInit
  /\ locked = {}
  /\ \A p \in Paths : fs[p] = Absent
  /\ cmdUser \in UserCommands
  /\ cmdConf \in ConfCommands
  /\ cmdFile \in FileNames
  /\ cmdOut = <<>>
  /\ cmdDone = FALSE
  /\ RegistryLoaded
  /\ DomIdle
  /\ PageIdle
  /\ SvcIdle

NextCmd == BuildCommand

SpecCmd == InitCmd /\ [][NextCmd]_vars

\* ------------------------------------------------------------ the registry
MaxLookups == 2

\* Profiles a langConfig.json may register, and the registries made of them.
AllProfiles ==
  [l \in {"c", "python", "html"} |->
     IF l = "c" THEN LangConfig["c"]
     ELSE IF l = "python"
          THEN [command |-> "python {file}", filename |-> "main.py", deletefile |-> <<>>]
          ELSE [command |-> "", filename |-> "index.html", deletefile |-> <<>>]]
Registries == {[l \in S |-> AllProfiles[l]] : S \in SUBSET DOMAIN AllProfiles}

\* What the constructor may find at media/langConfig.json.
Resources ==
  {[kind |-> "missing", value |-> <<>>], [kind |-> "malformed", value |-> <<>>]}
    \cup {[kind |-> "json", value |-> g] : g \in Registries}

\* Language keys handed to resolveConf.
LangKeys == DOMAIN AllProfiles \cup {"javascript", "ruby"} \cup ObjectPrototypeKeys

\* executionService.ts 84-95: the field starts as {} and the constructor
\* replaces it when readFileSync and JSON.parse both succeed; the catch only
\* warns.
constructorLoad(res) ==
  [outcome |-> "returned", config |-> IF res.kind = "json" THEN res.value ELSE <<>>]

\* new ExecutionService(extensionPath)
Construct ==
  /\ constructed = "no"
  /\ constructed' = constructorLoad(resource).outcome
  /\ langConfig' = constructorLoad(resource).config
  /\ UNCHANGED <<resource, resolved, hostVars, viewVars, toView, toHost, cmdVars, domVars, pageVars, svcVars>>

\* executionService.ts 97-100 (called at 113): resolveConf(lang)
Resolve(lang) ==
  /\ constructed = "returned"
  /\ Len(resolved) < MaxLookups
  /\ resolved' = Append(resolved, <<lang, resolveIn(langConfig, lang)>>)
  /\ UNCHANGED <<resource, langConfig, constructed, hostVars, viewVars, toView, toHost, cmdVars, domVars, pageVars, svcVars>>

InitRegistry ==
  /\ RunnerInit
  /\ locked = {}
  /\ \A p \in Paths : fs[p] = Absent
  /\ CmdIdle
  /\ resource \in Resources
  /\ langConfig = <<>>
  /\ constructed = "no"
  /\ resolved = <<>>
  /\ DomIdle
  /\ PageIdle
  /\ SvcIdle

NextRegistry ==
  \/ Construct
  \/ \E l \in LangKeys : Resolve(l)

SpecRegistry == InitRegistry /\ [][NextRegistry]_vars

\* ================================================================ claims
Count(seq, k) == Cardinality({i \in 1..Len(seq) : seq[i] = k})
targetsOf(r) == SeqRange(deleteTargets(resolveConf(rlang[r]).deletefile))

\* C1 (as claimed): at the step in which execute() returns for a run, on
\* every exit path, the temp file and every path of the profile's deletefile
\* list are absent from the working directory (paths whose deletion the OS
\* refuses aside).
C1_CleanupOnEveryReturn ==
  [][\A r \in Runs :
       returns'[r] > returns[r] =>
         \A p \in {tmpFilePath(r, rlang'[r])}
                    \cup SeqRange(deleteTargets(resolveConf(rlang'[r]).deletefile)) :
           p \notin locked => fs'[p] = Absent]_vars

\* C2: a run request yields at most one outcome and at most one exit event,
\* whatever 'error' and 'close' callbacks arrive; a run that has ended has
\* exactly one outcome.
C2_OneOutcomeOneExit ==
  \A r \in Runs :
    /\ returns[r] <= 1
    /\ Count(elog[r], "exit") <= 1
    /\ (returns[r] = 1) = (result[r].settled # "pending")
    /\ rst[r] \in Terminal \cup {"errored"} => returns[r] = 1

\* C2 witness: a run whose 'error' and 'close' handlers both ran.
C2_ErrorThenClose ==
  \E r \in Runs :
    /\ rst[r] = "closed" /\ pstatus[r] = SpawnErrorStatus /\ rpanel[r]
    /\ elog[r] = <<"status", "error", "exit">> /\ returns[r] = 1

\* C3 (as claimed): every run that has returned to its caller with a sink
\* attached has emitted exit exactly once, as its last event.
C3_ExitExactlyOnce ==
  \A r \in Runs :
    (returns[r] = 1 /\ rpanel[r]) =>
      /\ Count(elog[r], "exit") = 1
      /\ elog[r][Len(elog[r])] = "exit"

\* C3 (amended): a run emits exit at most once and nothing after it; it emits
\* exit exactly once when its process was started and has closed, and never
\* when the temp-file write failed or exec() threw.
C3_ExitAtMostOnceAndLast ==
  \A r \in Runs :
    /\ Count(elog[r], "exit") <= 1
    /\ Count(elog[r], "exit") = 1 => elog[r][Len(elog[r])] = "exit"
    /\ (rst[r] = "closed" /\ rpanel[r]) => Count(elog[r], "exit") = 1
    /\ rst[r] \in {"writeFailed", "spawnThrew"} => Count(elog[r], "exit") = 0

\* C3 witness: a run that streamed output and then emitted exit.
C3_StreamThenExit ==
  \E r \in Runs :
    /\ rst[r] = "closed" /\ rpanel[r]
    /\ Len(elog[r]) >= 3 /\ elog[r][Len(elog[r]) - 1] = "stream"
    /\ elog[r][Len(elog[r])] = "exit"

Quiescent ==
  /\ toHost = <<>> /\ toView = <<>>
  /\ \A r \in UsedRuns : rst[r] \in Terminal

\* C4 (as claimed): when the runs of two cells overlapped and everything has
\* been delivered, the stream output in each cell's buffer comes from that
\* cell's own run only.
C4_OutputsIsolated ==
  (overlapped /\ Quiescent) =>
    \A c \in Cells : \A i \in 1..Len(out[c]) :
      out[c][i][2] = "stream" => rcell[out[c][i][1]] = c

\* C5: runs of the same language use the same temp file path, and what a
\* run's process finds there is whatever the runs of that language left.
C5_SharedTempFile ==
  \A r1 \in UsedRuns :
    /\ \A r2 \in UsedRuns :
         rlang[r1] = rlang[r2] =>
           tmpFilePath(r1, rlang[r1]) = tmpFilePath(r2, rlang[r2])
    /\ execd[r1] \notin {NotRead, Absent} =>
         /\ execd[r1].kind = "code"
         /\ execd[r1].by \in UsedRuns
         /\ rlang[execd[r1].by] = rlang[r1]

\* C5 witness: one run's process executed the other run's code, and the
\* other run's process found the file already deleted.
C5_RaceWitness ==
  \E r1, r2 \in Runs :
    /\ r1 # r2
    /\ execd[r1] = CodeOf(r2)
    /\ execd[r2] = Absent

\* C6: execute() reports success exactly when the process ended with exit
\* code 0; signal, write failure and spawn failure give success = false.
C6_SuccessIffCodeZero ==
  \A r \in Runs :
    result[r].settled # "pending" =>
      /\ result[r].success = (pstatus[r].code = Num(0))
      /\ rst[r] \in {"writeFailed", "spawnThrew", "errored"} => ~result[r].success

\* C6 witness: one run ended with code 0, another was killed by a signal.
C6_ZeroAndSignal ==
  \E r1, r2 \in Runs :
    /\ pstatus[r1].code = Num(0) /\ result[r1].success
    /\ pstatus[r2].code = Null /\ pstatus[r2].signal = "SIGTERM"
    /\ result[r2].settled = "fulfilled" /\ ~result[r2].success

\* C7: execute() never rejects; non-zero exit, signal, write failure and
\* spawn failure are returned as a value with success = false.
C7_NeverRejects ==
  \A r \in Runs :
    /\ result[r].settled # "rejected"
    /\ rst[r] \in {"writeFailed", "spawnThrew", "errored"} =>
         (result[r].settled = "fulfilled" /\ ~result[r].success)
    /\ (rst[r] = "closed" /\ pstatus[r].code # Num(0)) =>
         (result[r].settled = "fulfilled" /\ ~result[r].success)

\* C7 witness: a write failure and an exec() throw, both returned as values.
C7_FailuresReturned ==
  \E r1, r2 \in Runs :
    /\ rst[r1] = "writeFailed" /\ result[r1] = executeCatch
    /\ rst[r2] = "spawnThrew" /\ result[r2] = executeCatch

\* C8: after a failed temp-file write the run has posted exactly one error
\* event when a sink is attached (nothing otherwise), no status, stream or
\* exit event, and no process was started for it.
C8_WriteFailureStops ==
  \A r \in Runs :
    rst[r] = "writeFailed" =>
      /\ elog[r] = IF rpanel[r] THEN <<"error">> ELSE <<>>
      /\ execd[r] = NotRead
      /\ pstatus[r] = NoStatus
      /\ \A o \in Origins : chunks[r][o] = 0

\* C8 witness: a run with a sink whose write failed.
C8_WriteFailedWithSink ==
  \E r \in Runs : rst[r] = "writeFailed" /\ rpanel[r] /\ returns[r] = 1

\* C9: the step that handles a spawn-time error (exec() throws, or the
\* process emits 'error') posts an error event to the sink, leaves the temp
\* file absent unless the OS refuses the deletion, and gives the outcome
\* success = false.
C9_SpawnErrorHandled ==
  [][\A r \in Runs :
       (rst'[r] # rst[r] /\ rst'[r] \in {"spawnThrew", "errored"}) =>
         /\ rpanel'[r] =>
              (Len(elog'[r]) > Len(elog[r]) /\ elog'[r][Len(elog'[r])] = "error")
         /\ tmpFilePath(r, rlang'[r]) \notin locked =>
              fs'[tmpFilePath(r, rlang'[r])] = Absent
         /\ result'[r].settled = "fulfilled" /\ ~result'[r].success]_vars

\* C9 witness: exec() threw for a run with a sink; the file it wrote is gone.
C9_SpawnThrew ==
  \E r \in Runs :
    /\ rst[r] = "spawnThrew" /\ rpanel[r]
    /\ elog[r] = <<"status", "error">>
    /\ fs[tmpFilePath(r, rlang[r])] = Absent
    /\ ~result[r].success

\* Positions of the placeholder in s, and how many of them lie before j.
Occ(s) == {i \in 1..Len(s) : matchAt(s, Placeholder, i)}
OccBefore(s, j) == Cardinality({i \in Occ(s) : i < j})
InOcc(s, j) == \E i \in Occ(s) : i <= j /\ j < i + Len(Placeholder)

\* C10 (as claimed): with a non-empty chosen command, every occurrence of
\* {file} is replaced by the temp file name and the rest of the command is
\* kept; a command without {file} gets a space and the file name appended.
C10_Templating ==
  cmdDone =>
    LET b == baseCmd(cmdUser, cmdConf)
        f == cmdFile
        d == Len(f) - Len(Placeholder)
    IN  Len(b) > 0 =>
          IF Occ(b) # {}
          THEN /\ Len(cmdOut) = Len(b) + Cardinality(Occ(b)) * d
               /\ \A i \in Occ(b) :
                    SubSeq(cmdOut, i + OccBefore(b, i) * d,
                           i + OccBefore(b, i) * d + Len(f) - 1) = f
               /\ \A j \in 1..Len(b) :
                    ~InOcc(b, j) => cmdOut[j + OccBefore(b, j) * d] = b[j]
          ELSE cmdOut = trimStart(b) \o Space \o f

DefaultCommand(f) == <<"n", "o", "d", "e", " ">> \o f

C12_ResolveTotal ==
  \A i \in 1..Len(resolved) :
    LET key == resolved[i][1]
        value == resolved[i][2]
    IN  /\ value # Undefined
        /\ key \in DOMAIN langConfig => value = langConfig[key]
        /\ key \notin DOMAIN langConfig => value = FALLBACK_CONF

\* C13 (as claimed): with the resource missing or unparsable the constructor
\* returns, and every resolveConf call of that service, for any key, returns
\* the built-in default profile.
C13_DegradedLoad ==
  resource.kind \in {"missing", "malformed"} =>
    /\ constructed \in {"no", "returned"}
    /\ constructed = "returned" => langConfig = <<>>
    /\ \A i \in 1..Len(resolved) : resolved[i][2] = FALLBACK_CONF

\* The step is the listener handling the message at the head of the channel;
\* the step is a click that sent a run request; the step is a click that did not.
Delivering == toView # <<>> /\ toView' = Tail(toView)
RunnerEvent(kinds) == Head(toView).command # "result" /\ Head(toView).kind \in kinds
Shows(c) == c \in DOMAIN out /\ ~iframe[c]
OthersKept(c) ==
  /\ DOMAIN out' = DOMAIN out
  /\ \A d \in DOMAIN out : d # c => out'[d] = out[d]

\* C14 (as claimed): a stream or status event is appended to the output of
\* the cell recorded as active and changes no other cell's output; with no
\* active cell it changes no output.
C14_AppendsToActive ==
  [][(Delivering /\ RunnerEvent({"stream", "status"})) =>
       /\ OthersKept(activeIndex)
       /\ activeIndex \in DOMAIN out =>
            out'[activeIndex] = Append(out[activeIndex], <<0, Head(toView).kind>>)
       /\ activeIndex = "null" => out' = out]_vars

\* C14 (amended): a stream or status event changes no output but that of the
\* cell recorded as active, to which it is appended unless that cell's output
\* area holds the preview iframe; with no active cell it changes no output.
C14_StreamStatusActiveOnly ==
  [][(Delivering /\ RunnerEvent({"stream", "status"})) =>
       /\ OthersKept(activeIndex)
       /\ Shows(activeIndex) =>
            out'[activeIndex] = Append(out[activeIndex], <<0, Head(toView).kind>>)
       /\ (activeIndex \in DOMAIN out /\ iframe[activeIndex]) => out' = out
       /\ activeIndex = "null" => out' = out
       /\ activeIndex' = activeIndex /\ disabled' = disabled]_vars

\* C14 witness: the active cell received a stream event while the other cell
\* kept the output it had.
C14_StreamInActiveCell ==
  \E c, d \in Cells :
    /\ c # d /\ activeIndex = c
    /\ out[c] = <<<<0, "stream">>>>
    /\ out[d] = <<<<0, "exit">>>>

C16_StaleDropped ==
  [][(Delivering /\ addressee(Head(toView)) # "null"
                 /\ addressee(Head(toView)) \notin DOMAIN out) =>
       /\ out' = out
       /\ disabled' = disabled
       /\ iframe' = iframe]_vars

\* C16 witness: a run was requested from the modal clone, the modal was
\* closed, and the listener then handled a message routed to the clone.
C16_ClosedModalMessage ==
  /\ stale
  /\ DOMAIN out = Cells
  /\ toView = <<>>
  /\ \E c \in Cells : disabled[c] /\ out[c] = <<>>

\* C17: a click that sends a run request sends exactly one, carrying the
\* cell's index, language, code and command; it empties that cell's output,
\* disables its run control, makes it the active cell, and changes no other
\* cell's output or run control.
C17_PressRunTerminal ==
  [][(toHost' # toHost /\ Len(toHost') > Len(toHost)) =>
       \E c \in DOMAIN out, l \in ViewLangs \cup Langs, k \in Codes \cup {"code"} :
         /\ ~isIframeType(currentExecutionType(l))
         /\ toHost' = Append(toHost, [command |-> "run", language |-> l, code |-> k,
                                      execCommand |-> "", index |-> c])
         /\ out' = [out EXCEPT ![c] = <<>>]
         /\ disabled' = [disabled EXCEPT ![c] = TRUE]
         /\ activeIndex' = c]_vars

\* C17 witness: cell c was run while the other cell had output and an enabled
\* run control, and both are as they were.
C17_RunPressed ==
  \E c, d \in Cells :
    /\ c # d
    /\ toHost # <<>> /\ toHost[Len(toHost)].index = c
    /\ toHost[Len(toHost)].code = "edited"
    /\ activeIndex = c /\ disabled[c] /\ out[c] = <<>>
    /\ out[d] # <<>> /\ ~disabled[d]

\* C18: when an exit or error event is handled while a cell is recorded as
\* active, that cell's run control is enabled and no cell is active afterwards.
C18_ExitErrorEndsRun ==
  [][(Delivering /\ RunnerEvent({"exit", "error"}) /\ activeIndex # "null") =>
       /\ activeIndex' = "null"
       /\ activeIndex \in DOMAIN disabled =>
            disabled' = [disabled EXCEPT ![activeIndex] = FALSE]]_vars

\* C18 witness: the cell that was active received the exit event and is idle
\* again.
C18_BackToIdle ==
  \E c \in Cells :
    /\ out[c] # <<>> /\ out[c][Len(out[c])] = <<0, "exit">>
    /\ ~disabled[c] /\ activeIndex = "null"

\* C19 (as claimed): when the exit event of a failed run (code other than 0)
\* is handled for an active cell that has a pre-generated output, that cell's
\* output afterwards contains the pre-generated output.
C19_FallbackOnFailure ==
  [][(Delivering /\ RunnerEvent({"exit"}) /\ Head(toView).code # Num(0)
        /\ activeIndex \in Cells /\ Shows(activeIndex) /\ pre[activeIndex] # "") =>
       \E i \in 1..Len(out'[activeIndex]) : out'[activeIndex][i][2] = "fallback"]_vars

\* C20: no run request ever carries a language that is rendered in an iframe,
\* and the click that renders the iframe sends no request, keeps the active
\* index and every run control, writes no file and starts no run.
C20_IframeRunStaysLocal ==
  [][/\ Len(toHost') > Len(toHost) =>
          currentExecutionType(toHost'[Len(toHost')].language)
            \notin {"iframe-html", "iframe-react", "iframe-vue"}
     /\ (\E c \in DOMAIN iframe \cap DOMAIN iframe' : iframe'[c] /\ ~iframe[c]) =>
          /\ toHost' = toHost
          /\ activeIndex' = activeIndex
          /\ disabled' = disabled
          /\ rst' = rst /\ fs' = fs]_vars

\* C20 witness: a cell shows the preview iframe, nothing was sent to the
\* host, no cell is active and the cell's run control is enabled.
C20_IframeRendered ==
  \E c \in Cells :
    /\ iframe[c] /\ ~disabled[c]
    /\ toHost = <<>> /\ posts = 0 /\ activeIndex = "null"
    /\ \A r \in Runs : rst[r] = "unused"

\* ------------------------------------------------- the request limiter
\* part_001 26-52 (geminiProxy).  Requests of one client id; each await is a
\* point where another request can run, on this instance or on another one.

\* Everything outside the limiter and the cache is at rest.
RestIdle == RunnerInit /\ CmdIdle /\ RegistryLoaded /\ DomIdle /\ PageIdle

\* part_001 27-32: the request arrives; with the valid judge token it skips
\* the limiter and goes on to the generation.
requestArrives(q, judge) ==
  /\ reqPc[q] = "new"
  /\ isJudge' = [isJudge EXCEPT ![q] = judge]
  /\ reqPc' = [reqPc EXCEPT ![q] = IF judge THEN "generate" ELSE "get"]
  /\ UNCHANGED <<count, currentCount, passed>>
  /\ UNCHANGED <<hostVars, viewVars, toView, toHost, cmdVars, regVars, domVars, pageVars,
                 cacheVars>>

\* part_001 35-41: await ipRef.get() delivers the snapshot; the count of a
\* missing document is 0.
getCount(q) ==
  /\ reqPc[q] = "get"
  /\ currentCount' = [currentCount EXCEPT ![q] = count]
  /\ reqPc' = [reqPc EXCEPT ![q] = "check"]
  /\ UNCHANGED <<count, isJudge, passed>>
  /\ UNCHANGED <<hostVars, viewVars, toView, toHost, cmdVars, regVars, domVars, pageVars,
                 cacheVars>>

\* The count that a passing request stores.
setCount(stored, read) == read + 1

\* part_001 44-51: over the limit, 429; otherwise the request passes and
\* set({count: currentCount + 1}) stores the count it read plus one.
checkAndSet(q) ==
  /\ reqPc[q] = "check"
  /\ IF currentCount[q] >= MAX_REQUESTS_PER_IP
     THEN /\ reqPc' = [reqPc EXCEPT ![q] = "429"]
          /\ UNCHANGED <<count, passed>>
     ELSE /\ reqPc' = [reqPc EXCEPT ![q] = "generate"]
          /\ count' = setCount(count, currentCount[q])
          /\ passed' = passed + 1
  /\ UNCHANGED <<currentCount, isJudge>>
  /\ UNCHANGED <<hostVars, viewVars, toView, toHost, cmdVars, regVars, domVars, pageVars,
                 cacheVars>>

\* The client has been served count times before, one request after the
\* other.
InitLimit ==
  /\ RestIdle /\ CacheIdle
  /\ count \in 0..MAX_REQUESTS_PER_IP
  /\ passed = count
  /\ reqPc = [q \in Requests |-> "new"]
  /\ currentCount = [q \in Requests |-> 0]
  /\ isJudge = [q \in Requests |-> FALSE]

NextLimit ==
  \/ \E q \in Requests, judge \in BOOLEAN : requestArrives(q, judge)
  \/ \E q \in Requests : getCount(q)
  \/ \E q \in Requests : checkAndSet(q)

SpecLimit == InitLimit /\ [][NextLimit]_vars

\* ------------------------------------------------------ the document cache
\* cacheService.ts 53-103.

MaxSaves == 3

\* cacheService.ts 57-69: the entries of the file; none when the file is
\* missing or does not parse to an array.
readAll(file) == IF file.kind = "array" THEN file.entries ELSE <<>>

\* Array.prototype.findIndex on the URL, 1-based; 0 for the -1 of the source.
findIndex(all, url) ==
  IF \E i \in 1..Len(all) : all[i].url = url
  THEN CHOOSE i \in 1..Len(all) :
         all[i].url = url /\ \A j \in 1..(i - 1) : all[j].url # url
  ELSE 0

\* cacheService.ts 75-78.
find(file, url) ==
  LET all == readAll(file)
      idx == findIndex(all, url)
  IN IF idx > 0 THEN all[idx] ELSE NoEntry

\* cacheService.ts 89-95: overwrite the entry of the URL or push a new one.
putEntry(all, entry) ==
  LET idx == findIndex(all, entry.url)
  IN IF idx > 0 THEN [all EXCEPT ![idx] = entry] ELSE Append(all, entry)

\* cacheService.ts 97-102: writeFileSync creates no directory; its exception
\* is caught and logged, and the file stays as it was.
writeCacheFile(dirExists, file, all) == IF dirExists THEN ArrayFile(all) ELSE file

\* cacheService.ts 86-103.
save(url) ==
  /\ saves < MaxSaves
  /\ LET entry == CacheEntry(url, saves + 1)
     IN /\ cacheFile' = writeCacheFile(cacheDir, cacheFile, putEntry(readAll(cacheFile), entry))
        /\ saved' = [saved EXCEPT ![url] = entry]
  /\ saves' = saves + 1
  /\ UNCHANGED <<cacheDir, cached>>
  /\ UNCHANGED <<hostVars, viewVars, toView, toHost, cmdVars, regVars, domVars, pageVars,
                 limitVars>>

\* docMateController.ts 51: the cache check of explain.
cacheCheck(url) ==
  /\ cached' = <<url, find(cacheFile, url)>>
  /\ UNCHANGED <<cacheDir, cacheFile, saved, saves>>
  /\ UNCHANGED <<hostVars, viewVars, toView, toHost, cmdVars, regVars, domVars, pageVars,
                 limitVars>>

\* cacheService.ts 34-41: the file lies in .vscode under the workspace root
\* or under os.tmpdir(); the directory may or may not exist, and with it a
\* file that is missing or was left unreadable.
InitCache ==
  /\ RestIdle /\ LimitIdle
  /\ cacheDir \in BOOLEAN
  /\ cacheFile \in (IF cacheDir THEN {NoFile, BrokenFile} ELSE {NoFile})
  /\ saved = [u \in Urls |-> NoEntry]
  /\ saves = 0
  /\ cached = <<>>

NextCache ==
  \/ \E url \in Urls : save(url)
  \/ \E url \in Urls : cacheCheck(url)

SpecCache == InitCache /\ [][NextCache]_vars

\* C29: of the requests of one client id that do not carry the judge token,
\* at most MAX_REQUESTS_PER_IP pass the check and the stored count is the
\* number of requests that passed; a request with the judge token goes on to
\* the generation, neither counted nor limited.
C29_AtMostLimitPassCountExact ==
  /\ passed <= MAX_REQUESTS_PER_IP
  /\ count = passed
  /\ \A q \in Requests : isJudge[q] => reqPc[q] = "generate"

\* C30: the cache file holds at most one entry per URL, and find returns the
\* entry of the latest save call for the URL, or null when there was none.
C30_FindReturnsLatestSaved ==
  /\ \A url \in Urls :
       /\ Cardinality({i \in 1..Len(readAll(cacheFile)) :
                         readAll(cacheFile)[i].url = url}) <= 1
       /\ find(cacheFile, url) = saved[url]
  /\ [][\A url \in Urls :
          cacheCheck(url) => cached'[2] = saved[url]]_vars

RECURSIVE Streamed(_, _, _)
Streamed(q, r, o) ==
  IF q = <<>> THEN <<>>
  ELSE (IF Head(q).kind = "stream" /\ Head(q).run = r /\ Head(q)[o] # NoChunk
        THEN <<Head(q)[o]>> ELSE <<>>) \o Streamed(Tail(q), r, o)
Received(r, o) == [i \in 1..chunks[r][o] |-> Chunk(o, i)]

\* C22: with a sink attached, the step that receives a chunk posts one
\* stream event, as the last message sent, carrying that chunk under its
\* origin and nothing under the other; for each origin the chunks carried by
\* a run's stream events are, in order, the chunks received from that origin.
C22_StreamPerChunkFifo ==
  /\ [][\A r \in Runs, o \in Origins :
          (chunks'[r][o] # chunks[r][o] /\ rpanel[r]) =>
            /\ chunks'[r][o] = chunks[r][o] + 1
            /\ Len(toView') = Len(toView) + 1
            /\ SubSeq(toView', 1, Len(toView)) = toView
            /\ LET e == toView'[Len(toView')] IN
                 /\ e.kind = "stream" /\ e.run = r
                 /\ e[o] = Chunk(o, chunks'[r][o])
                 /\ \A x \in Origins \ {o} : e[x] = NoChunk]_vars
  /\ [](\A r \in Runs, o \in Origins :
          rpanel[r] => Streamed(toView, r, o) = Received(r, o))
  /\ [](\A i \in 1..Len(toView) :
          toView[i].kind = "stream" =>
            (toView[i].stdout = NoChunk) # (toView[i].stderr = NoChunk))

\* C22 witness: a run with a sink received two chunks from each stream,
\* stderr first, and the four stream events are in the order of receipt.
C22_TwoChunksEachOrigin ==
  \E r \in Runs :
    /\ rpanel[r] /\ rst[r] = "closed"
    /\ elog[r] = <<"status", "stream", "stream", "stream", "stream", "exit">>
    /\ Streamed(toView, r, "stdout") = <<Chunk("stdout", 1), Chunk("stdout", 2)>>
    /\ \E i \in 1..(Len(toView) - 2) :
         /\ toView[i].stderr = Chunk("stderr", 1)
         /\ toView[i + 1].stdout = Chunk("stdout", 1)
         /\ toView[i + 2].stderr = Chunk("stderr", 2)

Returned(r) == outcome[r] # NoOutcome

\* Two runs whose processes behaved alike return the same value, with or
\* without a sink.
SinkIndependent ==
  \A r1, r2 \in Runs :
    (/\ rst[r1] = "closed" /\ rst[r2] = "closed"
     /\ chunks[r1] = chunks[r2] /\ pstatus[r1] = pstatus[r2]) =>
      outcome[r1] = outcome[r2]

\* C28 (as claimed): runs whose processes behaved alike return the same
\* value with or without a sink, and the stdout and stderr a run with a sink
\* returns are the chunks its stream events carried, in order.
C28_OutcomeEqualsStreamed ==
  /\ SinkIndependent
  /\ \A r \in Runs :
       (Returned(r) /\ rpanel[r]) =>
         /\ outcome[r].stdout = Streamed(toView, r, "stdout")
         /\ outcome[r].stderr = Streamed(toView, r, "stderr")

\* C28 (amended): runs whose processes behaved alike return the same value
\* with or without a sink; the stdout a run with a sink returns is the chunks
\* its stream events carried, in order, and so is the stderr, followed by the
\* error's text when the value was returned by the 'error' handler.
C28_OutcomeEqualsStreamedOrError ==
  /\ SinkIndependent
  /\ \A r \in Runs :
       (Returned(r) /\ rpanel[r]) =>
         /\ outcome[r].stdout = Streamed(toView, r, "stdout")
         /\ outcome[r].stderr =
              Streamed(toView, r, "stderr")
                \o (IF rst[r] = "errored" \/ pstatus[r] = SpawnErrorStatus
                    THEN <<ErrText>> ELSE <<>>)
  /\ \A r \in Runs :
       Returned(r) => \A o \in Origins : SubSeq(outcome[r][o], 1, chunks[r][o]) = Received(r, o)

\* C28 witness: a run with a sink and a run without one both received two
\* stdout chunks and one stderr chunk, were ended by the same signal and
\* returned the same value.
C28_SameWithAndWithoutSink ==
  \E r1, r2 \in Runs :
    /\ rpanel[r1] /\ ~rpanel[r2]
    /\ rst[r1] = "closed" /\ rst[r2] = "closed"
    /\ pstatus[r1].signal = "SIGTERM" /\ pstatus[r2] = pstatus[r1]
    /\ outcome[r1] = outcome[r2]
    /\ Len(outcome[r1].stdout) = 2 /\ Len(outcome[r1].stderr) = 1

\* C23: the step of the 'close' handler returns the outcome as a value and
\* leaves every path of its cleanup absent whose deletion the OS does not
\* refuse, whichever other deletions were refused; a refused deletion in the
\* 'error' handler or after a failed exec() does not keep the outcome back
\* either.
C23_CleanupFailureSwallowed ==
  [][\A r \in Runs :
       /\ (rst'[r] = "closed" /\ rst[r] # "closed") =>
            /\ result'[r].settled = "fulfilled" /\ returns'[r] = 1
            /\ Returned(r)'
            /\ \A p \in {tmpFilePath(r, rlang[r])} \cup targetsOf(r) :
                 IF p \in locked THEN fs'[p] = fs[p] ELSE fs'[p] = Absent
       /\ (rst'[r] # rst[r] /\ rst'[r] \in {"errored", "spawnThrew"}) =>
            result'[r].settled = "fulfilled" /\ returns'[r] = 1]_vars

\* C23 witness: the deletion of the temp file was refused (the file is still
\* there), the build product listed after it was deleted all the same, and
\* the outcome was returned.
C23_RefusedThenDeleted ==
  \E r \in Runs :
    /\ rst[r] = "closed" /\ rlang[r] = "c"
    /\ tmpFilePath(r, "c") \in locked /\ "a.out" \notin locked
    /\ execd[r] = CodeOf(r)
    /\ fs[tmpFilePath(r, "c")] = CodeOf(r) /\ fs["a.out"] = Absent
    /\ result[r].settled = "fulfilled" /\ Returned(r)

AllAnswered ==
  /\ toHost = <<>> /\ toView = <<>>
  /\ \A r \in UsedRuns : rst[r] \in Terminal /\ answered[r] = returns[r]

\* C25: in the one-shot result mode a run is answered at most once, when
\* execute() has returned for it, by a result message carrying the index of
\* the request that started the run; when everything has ended and been
\* delivered, every request has been answered exactly once, every cell's run
\* control is enabled again and the results shown in a cell are those of the
\* runs that cell requested.
C25_OneResultPerRequest ==
  /\ [][\A r \in Runs :
          answered'[r] # answered[r] =>
            /\ answered'[r] = 1 /\ returns[r] = 1
            /\ Len(toView') = Len(toView) + 1
            /\ LET m == toView'[Len(toView')] IN
                 m.command = "result" /\ m.run = r /\ m.index = rcell[r]]_vars
  /\ [](\A i \in 1..Len(toView) :
          toView[i].command = "result" /\ toView[i].index = rcell[toView[i].run])
  /\ [](AllAnswered =>
          /\ \A r \in UsedRuns : answered[r] = 1
          /\ \A c \in Cells :
               /\ ~disabled[c]
               /\ \A i \in 1..Len(out[c]) :
                    out[c][i][2] = "result" /\ rcell[out[c][i][1]] = c)

\* C25 witness: two cells requested runs that overlapped, and each shows the
\* result of its own run.
C25_OverlappingAnswered ==
  /\ overlapped /\ AllAnswered
  /\ rcell[1] # rcell[2]
  /\ out[rcell[1]] = <<<<1, "result">>>>
  /\ out[rcell[2]] = <<<<2, "result">>>>

\* C26 (as claimed): when every issued run has ended and all its events have
\* been delivered, no cell's run control is disabled.
C26_AllIdleWhenQuiescent ==
  Quiescent => \A c \in Cells : ~disabled[c]

====
